---- MODULE Spec2Model ----
(***************************************************************************)
(* lstest: N worker threads advance one shared counter in round-robin turn *)
(* order under one of three exclusion primitives (src/main.cpp).           *)
(*                                                                         *)
(* Every access to the volatile counter and to the lock cell is one step.  *)
(* The loop test of worker() acts on the local copy returned by inc() and  *)
(* is fused with the release that precedes it; the exit test of a for loop *)
(* in execSync is fused with the iteration that precedes it.               *)
(*                                                                         *)
(* The counter is modelled as an unbounded integer: the values reached are *)
(* far below INT_MAX. Thread counts are positive, as they are when         *)
(* std::thread::hardware_concurrency() reports the number of cores.        *)
(***************************************************************************)
EXTENDS Integers, Sequences, FiniteSets, TLC

VARIABLES
    res,               \* the Resource objects constructed so far, by number
    threads,           \* execSync: std::vector<std::thread> threads, with each worker's frame
    hpc,               \* execSync: "spawn" (first loop), "join" (second loop), "joined" (returned)
    i,                 \* execSync: loop variable i
    max_threads,       \* main: max_threads, the argument of execSync
    max_count,         \* main: max_count, the argument of execSync
    max_threads_dflt,  \* main: max_threads_dflt
    r,                 \* execSync: Resource& r, the number of the object referred to
    run,               \* number of execSync calls started by the caller
    counting           \* history: whether the calls of inc made at or above the target are counted

vars == <<res, threads, hpc, i, max_threads, max_count, max_threads_dflt, r, run, counting>>

\* ---------------------------------------------------------------- bounds
MaxThreads == 3
MaxCount == 3
MaxCores == 1

\* ---------------------------------------------------------------- resources
Kinds == {"ResourceAtomicSpin", "ResourceAtomicFlag", "ResourceMutex"}

\* std::atomic<int> spin_lock has no initialiser: its first value is
\* indeterminate (0, 1 or any other int, represented by 2).
Indeterminate == {0, 1, 2}

\* A freshly constructed object of each class: val = 0 and the lock cell.
ResourceAtomicSpin == {[kind |-> "ResourceAtomicSpin", val |-> 0, lock |-> l] : l \in Indeterminate}
ResourceAtomicFlag == {[kind |-> "ResourceAtomicFlag", val |-> 0, lock |-> FALSE]}
ResourceMutex == {[kind |-> "ResourceMutex", val |-> 0, lock |-> FALSE]}

Fresh(kind) ==
    CASE kind = "ResourceAtomicSpin" -> ResourceAtomicSpin
      [] kind = "ResourceAtomicFlag" -> ResourceAtomicFlag
      [] kind = "ResourceMutex" -> ResourceMutex

\* ---------------------------------------------------------------- worker frames
Workers == DOMAIN threads

\* The frame of the thread started by std::thread th(worker, max_threads, i, max_count, std::ref(r)).
\* tmp is the value val++ loaded and ret the local copy. Three fields record
\* history: seen, the value the turn check of the current call read, and did,
\* whether the current call completed its val++, both kept until the call
\* copies val into ret; incs, the number of val++ this worker completed.
\* Two more count, in a behaviour that starts with counting set, the calls of
\* inc the worker made once the counter was at or above its target: late,
\* those it began then, and latedone, those it returned from then.
NewThread(n, t, c, ref) ==
    [max_threads |-> n, thread_num |-> t, max_count |-> c, r |-> ref,
     pc |-> "acquire", seen |-> 0, tmp |-> 0, ret |-> 0, did |-> FALSE, incs |-> 0,
     late |-> IF counting /\ res[ref].val >= c THEN 1 ELSE 0, latedone |-> 0]

Val(k) == res[threads[k].r].val
Lock(k) == res[threads[k].r].lock
Kind(k) == res[threads[k].r].kind

\* the turn check taken one value early
IsTurnEarly(v, n, t) == (v + 1) % n = t

\* the turn check against a thread number counted from 1
IsTurnOneBased(v, n, t) == v % n = t + 1

\* the increment made without a turn check
IsTurnAlways(v, n, t) == TRUE

\* the condition of the if statement in inc
IsTurn(v, n, t) == v % n = t

\* the loop of worker going on at the target count itself
AgainInclusive(ret, c) == ret <= c

\* the loop of worker with its comparison reversed
AgainReversed(ret, c) == ret > c

\* the condition of the while statement in worker
Again(ret, c) == ret < c

\* ---------------------------------------------------------------- inc: acquisition
\* do { expect = 0; } while (spin_lock.compare_exchange_weak(expect, 1, ...));
\* The exchange succeeds only on 0 and then the loop goes round again; it
\* fails on a non-zero cell, or spuriously, and then the loop is left.
AtomicSpinAcquire(k) ==
    /\ k \in Workers
    /\ threads[k].pc = "acquire"
    /\ Kind(k) = "ResourceAtomicSpin"
    /\ \/ /\ Lock(k) = 0
          /\ res' = [res EXCEPT ![threads[k].r].lock = 1]
          /\ UNCHANGED threads
       \/ /\ threads' = [threads EXCEPT ![k].pc = "check"]
          /\ UNCHANGED res
    /\ UNCHANGED <<hpc, i, max_threads, max_count, max_threads_dflt, r, run, counting>>

\* the test-and-set loop left when the flag was found set
AtomicFlagAcquireInverted(k) ==
    /\ k \in Workers
    /\ threads[k].pc = "acquire"
    /\ Kind(k) = "ResourceAtomicFlag"
    /\ res' = [res EXCEPT ![threads[k].r].lock = TRUE]
    /\ threads' = [threads EXCEPT ![k].pc = IF Lock(k) THEN "check" ELSE "acquire"]
    /\ UNCHANGED <<hpc, i, max_threads, max_count, max_threads_dflt, r, run, counting>>

\* while (std_spin_lock.test_and_set(std::memory_order_acquire));
AtomicFlagAcquire(k) ==
    /\ k \in Workers
    /\ threads[k].pc = "acquire"
    /\ Kind(k) = "ResourceAtomicFlag"
    /\ res' = [res EXCEPT ![threads[k].r].lock = TRUE]
    /\ threads' = [threads EXCEPT ![k].pc = IF Lock(k) THEN "acquire" ELSE "check"]
    /\ UNCHANGED <<hpc, i, max_threads, max_count, max_threads_dflt, r, run, counting>>

\* a lock taken without waiting for the holder
MutexLockUnguarded(k) ==
    /\ k \in Workers
    /\ threads[k].pc = "acquire"
    /\ Kind(k) = "ResourceMutex"
    /\ res' = [res EXCEPT ![threads[k].r].lock = TRUE]
    /\ threads' = [threads EXCEPT ![k].pc = "check"]
    /\ UNCHANGED <<hpc, i, max_threads, max_count, max_threads_dflt, r, run, counting>>

\* m.lock(): blocks while the mutex is held
MutexLock(k) ==
    /\ k \in Workers
    /\ threads[k].pc = "acquire"
    /\ Kind(k) = "ResourceMutex"
    /\ Lock(k) = FALSE
    /\ res' = [res EXCEPT ![threads[k].r].lock = TRUE]
    /\ threads' = [threads EXCEPT ![k].pc = "check"]
    /\ UNCHANGED <<hpc, i, max_threads, max_count, max_threads_dflt, r, run, counting>>

\* ---------------------------------------------------------------- inc: protected region
\* if (val % max_threads == thread_num)
TurnCheck(k) ==
    /\ k \in Workers
    /\ threads[k].pc = "check"
    /\ threads' = [threads EXCEPT
            ![k].seen = Val(k),
            ![k].pc = IF IsTurn(Val(k), threads[k].max_threads, threads[k].thread_num)
                      THEN "load" ELSE "copy"]
    /\ UNCHANGED <<res, hpc, i, max_threads, max_count, max_threads_dflt, r, run, counting>>

\* val++, the load of the volatile
IncLoad(k) ==
    /\ k \in Workers
    /\ threads[k].pc = "load"
    /\ threads' = [threads EXCEPT ![k].tmp = Val(k), ![k].pc = "store"]
    /\ UNCHANGED <<res, hpc, i, max_threads, max_count, max_threads_dflt, r, run, counting>>

\* val++, the store to the volatile
IncStore(k) ==
    /\ k \in Workers
    /\ threads[k].pc = "store"
    /\ res' = [res EXCEPT ![threads[k].r].val = threads[k].tmp + 1]
    /\ threads' = [threads EXCEPT ![k].tmp = 0, ![k].pc = "copy", ![k].did = TRUE,
                                  ![k].incs = threads[k].incs + 1]
    /\ UNCHANGED <<hpc, i, max_threads, max_count, max_threads_dflt, r, run, counting>>

\* int ret = val;
CopyVal(k) ==
    /\ k \in Workers
    /\ threads[k].pc = "copy"
    /\ threads' = [threads EXCEPT ![k].ret = Val(k), ![k].pc = "release",
                                  ![k].seen = 0, ![k].did = FALSE]
    /\ UNCHANGED <<res, hpc, i, max_threads, max_count, max_threads_dflt, r, run, counting>>

\* ---------------------------------------------------------------- inc: release, and the loop of worker
\* return ret; followed by the test of while (r.inc(...) < max_count)
Return(k) ==
    [threads EXCEPT ![k].pc = IF Again(threads[k].ret, threads[k].max_count)
                              THEN "acquire" ELSE "done",
                    ![k].ret = 0,
                    ![k].late = IF /\ counting
                                   /\ Again(threads[k].ret, threads[k].max_count)
                                   /\ Val(k) >= threads[k].max_count
                                THEN threads[k].late + 1 ELSE threads[k].late,
                    ![k].latedone = IF counting /\ Val(k) >= threads[k].max_count
                                    THEN threads[k].latedone + 1 ELSE threads[k].latedone]

\* spin_lock.store(0, std::memory_order_release); return ret;
AtomicSpinRelease(k) ==
    /\ k \in Workers
    /\ threads[k].pc = "release"
    /\ Kind(k) = "ResourceAtomicSpin"
    /\ res' = [res EXCEPT ![threads[k].r].lock = 0]
    /\ threads' = Return(k)
    /\ UNCHANGED <<hpc, i, max_threads, max_count, max_threads_dflt, r, run, counting>>

\* std_spin_lock.clear(std::memory_order_release); return ret;
AtomicFlagRelease(k) ==
    /\ k \in Workers
    /\ threads[k].pc = "release"
    /\ Kind(k) = "ResourceAtomicFlag"
    /\ res' = [res EXCEPT ![threads[k].r].lock = FALSE]
    /\ threads' = Return(k)
    /\ UNCHANGED <<hpc, i, max_threads, max_count, max_threads_dflt, r, run, counting>>

\* m.unlock(); return ret;
MutexUnlock(k) ==
    /\ k \in Workers
    /\ threads[k].pc = "release"
    /\ Kind(k) = "ResourceMutex"
    /\ res' = [res EXCEPT ![threads[k].r].lock = FALSE]
    /\ threads' = Return(k)
    /\ UNCHANGED <<hpc, i, max_threads, max_count, max_threads_dflt, r, run, counting>>

\* ---------------------------------------------------------------- execSync
\* for (int i = 0; i < max_threads; i++) { std::thread th(worker, ...); threads.push_back(std::move(th)); }
\* the worker started with a thread number counted from 1
SpawnedThreadOneBased == NewThread(max_threads, i + 1, max_count, r)

SpawnedThread == NewThread(max_threads, i, max_count, r)

Spawn ==
    /\ hpc = "spawn"
    /\ i < max_threads
    /\ threads' = Append(threads, SpawnedThread)
    /\ IF i + 1 < max_threads
       THEN i' = i + 1 /\ hpc' = "spawn"
       ELSE i' = 0 /\ hpc' = "join"
    /\ UNCHANGED <<res, max_threads, max_count, max_threads_dflt, r, run, counting>>

\* a join that does not wait
JoinableAlways(t) == TRUE

\* threads[i].join() returns when thread i has returned from worker
Joinable(t) == t.pc = "done"

\* the second loop joining threads[0] on every round
JoinFirstOnly ==
    /\ hpc = "join"
    /\ i < max_threads
    /\ Joinable(threads[1])
    /\ IF i + 1 < max_threads
       THEN i' = i + 1 /\ hpc' = "join"
       ELSE i' = 0 /\ hpc' = "joined"
    /\ UNCHANGED <<res, threads, max_threads, max_count, max_threads_dflt, r, run, counting>>

\* for (int i = 0; i < max_threads; i++) { threads[i].join(); }  then t2 and return
Join ==
    /\ hpc = "join"
    /\ i < max_threads
    /\ Joinable(threads[i + 1])
    /\ IF i + 1 < max_threads
       THEN i' = i + 1 /\ hpc' = "join"
       ELSE i' = 0 /\ hpc' = "joined"
    /\ UNCHANGED <<res, threads, max_threads, max_count, max_threads_dflt, r, run, counting>>

\* ---------------------------------------------------------------- one call of execSync
Init ==
    /\ \E kind \in Kinds : \E o \in Fresh(kind) : res = <<o>>
    /\ threads = <<>>
    /\ hpc = "spawn"
    /\ i = 0
    /\ max_threads \in 1..MaxThreads
    /\ max_threads_dflt = max_threads
    /\ max_count \in 0..MaxCount
    /\ r = 1
    /\ run = 1
    /\ counting = FALSE

Next ==
    \/ Spawn
    \/ Join
    \/ \E k \in 1..Len(threads) : AtomicSpinAcquire(k)
    \/ \E k \in 1..Len(threads) : AtomicFlagAcquire(k)
    \/ \E k \in 1..Len(threads) : MutexLock(k)
    \/ \E k \in 1..Len(threads) : TurnCheck(k)
    \/ \E k \in 1..Len(threads) : IncLoad(k)
    \/ \E k \in 1..Len(threads) : IncStore(k)
    \/ \E k \in 1..Len(threads) : CopyVal(k)
    \/ \E k \in 1..Len(threads) : AtomicSpinRelease(k)
    \/ \E k \in 1..Len(threads) : AtomicFlagRelease(k)
    \/ \E k \in 1..Len(threads) : MutexUnlock(k)

Spec == Init /\ [][Next]_vars

\* one call execSync(4, 100, r), the scenario of four workers counting to 100
InitScenario ==
    /\ \E kind \in Kinds : \E o \in Fresh(kind) : res = <<o>>
    /\ threads = <<>>
    /\ hpc = "spawn"
    /\ i = 0
    /\ max_threads = 4
    /\ max_threads_dflt = 4
    /\ max_count = 100
    /\ r = 1
    /\ run = 1
    /\ counting = FALSE

SpecScenario == InitScenario /\ [][Next]_vars

\* one call execSync(1, 10, r), the scenario of a single worker counting to 10
InitDegenerate ==
    /\ \E kind \in Kinds : \E o \in Fresh(kind) : res = <<o>>
    /\ threads = <<>>
    /\ hpc = "spawn"
    /\ i = 0
    /\ max_threads = 1
    /\ max_threads_dflt = 1
    /\ max_count = 10
    /\ r = 1
    /\ run = 1
    /\ counting = FALSE

SpecDegenerate == InitDegenerate /\ [][Next]_vars

\* one call of execSync as in Init, with the calls of inc made at or above
\* the target counted in each worker's frame
InitCounted ==
    /\ \E kind \in Kinds : \E o \in Fresh(kind) : res = <<o>>
    /\ threads = <<>>
    /\ hpc = "spawn"
    /\ i = 0
    /\ max_threads \in 1..MaxThreads
    /\ max_threads_dflt = max_threads
    /\ max_count \in 0..MaxCount
    /\ r = 1
    /\ run = 1
    /\ counting = TRUE

SpecCounted == InitCounted /\ [][Next]_vars

\* ---------------------------------------------------------------- main
\* the third call made on a ResourceAtomicSpin as well
KindOfRunShifted(n) ==
    IF n <= 3 THEN "ResourceAtomicSpin"
    ELSE IF n <= 4 THEN "ResourceAtomicFlag"
    ELSE "ResourceMutex"

\* the class of the object main passes to its n-th call of execSync
KindOfRun(n) ==
    IF n <= 2 THEN "ResourceAtomicSpin"
    ELSE IF n <= 4 THEN "ResourceAtomicFlag"
    ELSE "ResourceMutex"

\* main sets max_threads back to max_threads_dflt before the third and the
\* fifth call and doubles it before the second, fourth and sixth
ThreadsOfRun(n) == IF n % 2 = 0 THEN 2 * max_threads_dflt ELSE max_threads_dflt

\* main after a call of execSync has returned: the next object is
\* constructed, max_threads is set and execSync is called on the new object
NextRun ==
    /\ hpc = "joined"
    /\ run < 6
    /\ \E o \in Fresh(KindOfRun(run + 1)) : res' = Append(res, o)
    /\ max_threads' = IF (run + 1) % 2 = 0 THEN max_threads * 2 ELSE max_threads_dflt
    /\ r' = run + 1
    /\ run' = run + 1
    /\ threads' = <<>>
    /\ hpc' = "spawn"
    /\ i' = 0
    /\ UNCHANGED <<max_count, max_threads_dflt, counting>>

\* main at its first call execSync(max_threads, max_count, rspin)
MainInit ==
    /\ \E o \in ResourceAtomicSpin : res = <<o>>
    /\ threads = <<>>
    /\ hpc = "spawn"
    /\ i = 0
    /\ max_threads_dflt \in 1..MaxCores
    /\ max_threads = max_threads_dflt
    /\ max_count \in 0..MaxCount
    /\ r = 1
    /\ run = 1
    /\ counting = FALSE

MainNext == Next \/ NextRun

MainSpec == MainInit /\ [][MainNext]_vars

\* ---------------------------------------------------------------- scheduling
\* any step of worker k
WorkerStep(k) ==
    \/ AtomicSpinAcquire(k) \/ AtomicFlagAcquire(k) \/ MutexLock(k)
    \/ TurnCheck(k) \/ IncLoad(k) \/ IncStore(k) \/ CopyVal(k)
    \/ AtomicSpinRelease(k) \/ AtomicFlagRelease(k) \/ MutexUnlock(k)

\* the acquisition by which worker k gets into the protected region
Enter(k) ==
    /\ AtomicSpinAcquire(k) \/ AtomicFlagAcquire(k) \/ MutexLock(k)
    /\ threads'[k].pc = "check"

\* Every runnable thread keeps being scheduled, and a worker contending for a
\* primitive that is released again and again is not passed over for ever.
Fairness ==
    /\ WF_vars(Spawn)
    /\ WF_vars(Join)
    /\ \A k \in 1..MaxThreads : WF_vars(WorkerStep(k)) /\ SF_vars(Enter(k))

FairSpec == Spec /\ Fairness

\* ---------------------------------------------------------------- properties
\* a worker is in the protected region of inc from the end of the acquisition to the release
InRegion(t) == t.pc \in {"check", "load", "store", "copy", "release"}

Inside(id) == {k \in Workers : threads[k].r = id /\ InRegion(threads[k])}

RECURSIVE SumIncs(_, _)
SumIncs(id, n) ==
    IF n = 0 THEN 0
    ELSE SumIncs(id, n - 1) + (IF threads[n].r = id THEN threads[n].incs ELSE 0)

\* C1: at most one worker is inside the protected region of a counter, in every variant.
MutualExclusion == \A id \in DOMAIN res : Cardinality(Inside(id)) <= 1

TurnRule ==
    /\ [](\A k \in Workers :
            /\ threads[k].pc \in {"load", "store"}
                  => threads[k].seen % threads[k].max_threads = threads[k].thread_num
            /\ threads[k].pc = "copy"
                  => (threads[k].did <=>
                        threads[k].seen % threads[k].max_threads = threads[k].thread_num))
    /\ [][\A id \in DOMAIN res :
            res'[id].val # res[id].val =>
                \E k \in Workers :
                    /\ threads[k].r = id
                    /\ threads[k].pc = "store" /\ threads'[k].pc = "copy"
                    /\ threads[k].seen = res[id].val
                    /\ res[id].val % max_threads = threads[k].thread_num
                    /\ res'[id].val = res[id].val + 1]_vars

\* C3 witness: a worker has raised the counter on its turn and another has left it alone.
TurnRuleWitness ==
    \E k, j \in Workers :
        /\ threads[k].pc = "copy" /\ threads[k].did /\ threads[k].seen > 0
        /\ threads[j].pc = "copy" /\ ~threads[j].did

\* C4: the counter starts at 0, each step leaves it or raises it by 1, and it
\* equals the number of increments completed (none lost, none doubled).
ValueMonotone ==
    /\ res[r].val = 0
    /\ [][\A id \in DOMAIN res : res'[id].val \in {res[id].val, res[id].val + 1}]_vars
    /\ [](\A id \in DOMAIN res : res[id].val = SumIncs(id, Len(threads)))

\* C4 witness: two workers of the compare-and-swap variant are inside the
\* region while one of them is between the load and the store of val++.
ValueMonotoneWitness ==
    \E k, j \in Workers :
        /\ k # j
        /\ Kind(k) = "ResourceAtomicSpin"
        /\ threads[k].pc = "store" /\ threads[k].tmp > 0
        /\ InRegion(threads[j])

\* C6 as stated: with 4 workers and target 100 the run ends with the counter
\* at exactly 100 and 25 increments made by each worker.
ScenarioExact ==
    (hpc = "joined" /\ max_threads = 4 /\ max_count = 100) =>
        /\ res[r].val = 100
        /\ \A k \in 1..4 : threads[k].incs = 25

\* C6 amended: with 4 workers and target 100 the run ends with the counter
\* between 100 and 103; the worker with index t has made 26 increments if the
\* final value exceeds 100 + t and 25 otherwise.
ScenarioRange ==
    (hpc = "joined" /\ max_threads = 4 /\ max_count = 100) =>
        /\ res[r].val \in 100..103
        /\ \A k \in 1..4 :
              threads[k].incs = IF res[r].val > 100 + threads[k].thread_num THEN 26 ELSE 25

\* C6 witness: the run of 4 workers to 100 on a ResourceMutex has ended at
\* 103, worker 0 with 26 increments.
ScenarioRangeWitness ==
    /\ hpc = "joined" /\ max_threads = 4 /\ max_count = 100
    /\ res[r].kind = "ResourceMutex"
    /\ res[r].val = 103
    /\ threads[1].incs = 26 /\ threads[4].incs = 25

\* the n-th call of execSync has returned
Finished(n) == n < run \/ (n = run /\ hpc = "joined")

Dist(a, b) == IF a >= b THEN a - b ELSE b - a

\* C7 as stated: when the run has ended, the number of increments of each
\* worker differs from targetCount / totalThreads by at most 1.
FairShareOne ==
    hpc = "joined" =>
        \A k \in 1..max_threads :
            Dist(threads[k].incs, max_count \div max_threads) <= 1

\* C7 amended: when the run has ended, the number of increments of each worker
\* is at least targetCount / totalThreads and exceeds it by at most 2.
FairShareTwo ==
    hpc = "joined" =>
        \A k \in 1..max_threads :
            /\ threads[k].incs >= max_count \div max_threads
            /\ threads[k].incs <= (max_count \div max_threads) + 2

\* C7 witness: a run on a ResourceMutex has ended in which a worker made 2
\* increments more than targetCount / totalThreads.
FairShareTwoWitness ==
    /\ hpc = "joined"
    /\ res[r].kind = "ResourceMutex"
    /\ \E k \in 1..max_threads : threads[k].incs = (max_count \div max_threads) + 2

\* C8 as stated: calls of execSync with the same thread count and target
\* count end with the same counter value, whatever the variant and interleaving.
SameFinalValue ==
    \A a, b \in DOMAIN res :
        (Finished(a) /\ Finished(b) /\ ThreadsOfRun(a) = ThreadsOfRun(b))
            => res[a].val = res[b].val

\* C8 amended: calls of execSync with the same thread count and target count
\* end with counter values that differ by less than the thread count (and so
\* are equal for one thread).
NearFinalValue ==
    \A a, b \in DOMAIN res :
        (Finished(a) /\ Finished(b) /\ ThreadsOfRun(a) = ThreadsOfRun(b))
            => Dist(res[a].val, res[b].val) < ThreadsOfRun(a)

\* C8 witness: a finished call on a ResourceAtomicFlag and one on a
\* ResourceMutex, with the same thread count, ended with different counter values.
NearFinalValueWitness ==
    \E a, b \in DOMAIN res :
        /\ Finished(a) /\ Finished(b) /\ ThreadsOfRun(a) = ThreadsOfRun(b)
        /\ res[a].kind = "ResourceAtomicFlag" /\ res[b].kind = "ResourceMutex"
        /\ res[a].val # res[b].val

\* C9: execSync is joined only when every worker it spawned has returned, it
\* goes from running to joined and never back within the call, and once it is
\* joined no worker takes a step.
JoinSemantics ==
    /\ [](hpc = "joined" =>
            /\ Len(threads) = max_threads
            /\ \A k \in Workers : threads[k].pc = "done")
    /\ [][(hpc = "joined" /\ run' = run) => hpc' = "joined"]_vars
    /\ [][hpc = "joined" => ~(\E k \in Workers : WorkerStep(k))]_vars

\* C9 witness: execSync is joined after a run in which several workers incremented.
JoinSemanticsWitness ==
    /\ hpc = "joined" /\ max_threads >= 2
    /\ \A k \in Workers : threads[k].pc = "done" /\ threads[k].incs > 0

\* C10: execSync starts exactly max_threads workers, the k-th with thread
\* number k (from 0), all on the object r; no worker's thread number or
\* object ever changes, and only the object r is modified.
SpawnRule ==
    /\ [](/\ Len(threads) <= max_threads
          /\ hpc \in {"join", "joined"} => Len(threads) = max_threads
          /\ hpc = "spawn" => Len(threads) = i
          /\ \A k \in Workers :
                /\ threads[k].thread_num = k - 1
                /\ threads[k].r = r
                /\ threads[k].max_threads = max_threads
                /\ threads[k].max_count = max_count)
    /\ [][\A k \in Workers \cap DOMAIN threads' :
                /\ threads'[k].thread_num = threads[k].thread_num
                /\ threads'[k].r = threads[k].r]_vars
    /\ [][\A id \in DOMAIN res : res'[id] # res[id] => id = r]_vars

\* C10 witness: all workers of a run of three have been started and the last
\* of them has incremented the counter of r.
SpawnRuleWitness ==
    /\ hpc = "join" /\ max_threads = 3 /\ Len(threads) = 3
    /\ threads[3].incs > 0 /\ res[r].val >= 3

\* C5: the value a call returns is the value its own conditional update left:
\* v+1 on its turn and v otherwise, v being the value its turn check read.
ReturnedSnapshot ==
    [][\A k \in Workers \cap DOMAIN threads' :
            (threads[k].pc = "copy" /\ threads'[k].pc = "release") =>
                threads'[k].ret =
                    IF threads[k].seen % threads[k].max_threads = threads[k].thread_num
                    THEN threads[k].seen + 1 ELSE threads[k].seen]_vars

\* C11: with 1 worker and target 10 every turn check of the worker succeeds,
\* and the run ends with the counter at 10 after exactly 10 increments.
DegenerateScenario ==
    /\ []((max_threads = 1 /\ max_count = 10) =>
            /\ \A k \in Workers : threads[k].pc = "copy" => threads[k].did
            /\ hpc = "joined" => (res[r].val = 10 /\ threads[1].incs = 10))
    /\ [][(max_threads = 1 /\ max_count = 10) =>
            \A k \in Workers \cap DOMAIN threads' :
                (threads[k].pc = "check" /\ threads'[k].pc # "check")
                    => threads'[k].pc = "load"]_vars

\* C11 witness: the run of 1 worker to 10 on a ResourceAtomicSpin has ended at 10.
DegenerateScenarioWitness ==
    /\ hpc = "joined" /\ max_threads = 1 /\ max_count = 10
    /\ res[r].kind = "ResourceAtomicSpin"
    /\ res[r].val = 10 /\ threads[1].incs = 10

\* C12: a worker starts with a call of inc; after a call it calls again exactly
\* when the value returned is below the target and otherwise returns; it
\* returns only so, and takes no step after it has returned.
WorkerExitRule ==
    /\ [][\A k \in DOMAIN threads' \ Workers : threads'[k].pc = "acquire"]_vars
    /\ [][\A k \in Workers \cap DOMAIN threads' :
            /\ (threads[k].pc = "release" /\ threads'[k].pc # "release") =>
                    /\ threads[k].ret < threads[k].max_count => threads'[k].pc = "acquire"
                    /\ threads[k].ret >= threads[k].max_count => threads'[k].pc = "done"
            /\ (threads[k].pc # "done" /\ threads'[k].pc = "done") =>
                    threads[k].pc = "release" /\ threads[k].ret >= threads[k].max_count
            /\ threads[k].pc = "done" => threads'[k] = threads[k]]_vars

\* C12 witness: one worker has returned while another, having incremented, is
\* in a further call.
WorkerExitRuleWitness ==
    \E k, j \in Workers :
        /\ threads[k].pc = "done" /\ threads[k].incs > 0
        /\ threads[j].pc = "release" /\ threads[j].incs > 0
        /\ threads[j].ret < threads[j].max_count

\* C13: on a ResourceAtomicSpin a worker enters the protected region only by
\* its own compare-and-swap of spin_lock from 0 to 1 (a failed one never lets
\* it in), spin_lock is 1 while a worker is in the region, and it goes back
\* to 0 only by the step of a worker leaving the region.
SpinProtocol ==
    /\ [](\A k \in Workers :
            (Kind(k) = "ResourceAtomicSpin" /\ InRegion(threads[k])) => Lock(k) = 1)
    /\ [][\A k \in Workers \cap DOMAIN threads' :
            (/\ Kind(k) = "ResourceAtomicSpin"
             /\ threads[k].pc = "acquire" /\ threads'[k].pc = "check")
                => (Lock(k) = 0 /\ res'[threads[k].r].lock = 1)]_vars
    /\ [][\A id \in DOMAIN res :
            (/\ res[id].kind = "ResourceAtomicSpin"
             /\ res[id].lock = 1 /\ res'[id].lock = 0)
                => \E k \in Inside(id) :
                      threads[k].pc = "release" /\ threads'[k].pc # "release"]_vars

\* C14: on a ResourceAtomicFlag a worker enters the protected region only by a
\* test_and_set that found the flag clear, the flag is set exactly when one
\* worker is in the region (and never two are), and the flag is cleared only
\* by the step of that worker leaving the region.
FlagProtocol ==
    /\ [](\A id \in DOMAIN res :
            res[id].kind = "ResourceAtomicFlag" =>
                /\ Cardinality(Inside(id)) <= 1
                /\ res[id].lock <=> Cardinality(Inside(id)) = 1)
    /\ [][\A k \in Workers \cap DOMAIN threads' :
            (/\ Kind(k) = "ResourceAtomicFlag"
             /\ threads[k].pc = "acquire" /\ threads'[k].pc = "check")
                => (Lock(k) = FALSE /\ res'[threads[k].r].lock = TRUE)]_vars
    /\ [][\A id \in DOMAIN res :
            (/\ res[id].kind = "ResourceAtomicFlag"
             /\ res[id].lock = TRUE /\ res'[id].lock = FALSE)
                => \E k \in Inside(id) :
                      threads[k].pc = "release" /\ threads'[k].pc # "release"]_vars

\* C14 witness: on a ResourceAtomicFlag one worker is at the store of val++
\* with the flag set while another, that has incremented before, is at the
\* test_and_set loop.
FlagProtocolWitness ==
    \E k, j \in Workers :
        /\ Kind(k) = "ResourceAtomicFlag" /\ Lock(k) = TRUE
        /\ threads[k].pc = "store"
        /\ threads[j].pc = "acquire" /\ threads[j].incs > 0

RECURSIVE SumLateDone(_)
SumLateDone(n) == IF n = 0 THEN 0 ELSE SumLateDone(n - 1) + threads[n].latedone

\* C15: once the counter has reached the target, each worker begins at most
\* one more call of inc and returns from at most two (the one in progress and
\* that one), so the workers together return from at most 2 * max_threads.
\* Stated of the behaviours that count these calls.
PromptTermination ==
    /\ counting
    /\ \A k \in Workers :
          /\ threads[k].late <= 1
          /\ threads[k].latedone <= threads[k].late + 1
          /\ threads[k].latedone <= 2
    /\ SumLateDone(Len(threads)) <= 2 * max_threads

\* C15 witness: a worker has returned twice from inc after the counter reached
\* a positive target, the second time from a call begun after that.
PromptTerminationWitness ==
    \E k \in Workers :
        /\ threads[k].max_count > 0
        /\ threads[k].pc = "done"
        /\ threads[k].late = 1 /\ threads[k].latedone = 2

\* C16: main makes at most six calls of execSync, in the order compare-and-swap
\* lock, flag lock, mutex, each first with max_threads_dflt threads and then
\* with twice as many; the n-th call is on the n-th object, constructed for
\* it with counter 0; only the object of the current call is modified and
\* only its workers exist; a call starts only when the one before is joined
\* with all its workers returned.
RunSequencing ==
    /\ [](/\ run \in 1..6 /\ r = run /\ Len(res) = run
          /\ res[1].kind = "ResourceAtomicSpin"
          /\ run >= 2 => res[2].kind = "ResourceAtomicSpin"
          /\ run >= 3 => res[3].kind = "ResourceAtomicFlag"
          /\ run >= 4 => res[4].kind = "ResourceAtomicFlag"
          /\ run >= 5 => res[5].kind = "ResourceMutex"
          /\ run >= 6 => res[6].kind = "ResourceMutex"
          /\ max_threads = (IF run \in {2, 4, 6} THEN 2 * max_threads_dflt
                                                ELSE max_threads_dflt)
          /\ \A k \in Workers : threads[k].r = run
          /\ Len(threads) = 0 => res[run].val = 0)
    /\ [][\A id \in DOMAIN res : res'[id] # res[id] => id = run]_vars
    /\ [][run' # run =>
            /\ run' = run + 1
            /\ hpc = "joined" /\ Len(threads) = max_threads
            /\ \A k \in Workers : threads[k].pc = "done"
            /\ threads' = <<>> /\ hpc' = "spawn"
            /\ res'[run'].val = 0]_vars

\* C16 witness: the sixth call, on a ResourceMutex with twice
\* max_threads_dflt threads, is joined with its counter raised.
RunSequencingWitness ==
    /\ run = 6 /\ hpc = "joined"
    /\ res[6].kind = "ResourceMutex" /\ res[6].val > 0
    /\ Len(threads) = 2 * max_threads_dflt
    /\ \A n \in 1..5 : res[n].val > 0

\* C17: the counter never exceeds max_count + max_threads - 1 when max_count
\* is at least 1, and never exceeds max_threads when max_count is 0; a
\* finished run has its counter at or above max_count.
OvershootBound ==
    /\ res[r].val <= (IF max_count >= 1 THEN max_count + max_threads - 1 ELSE max_threads)
    /\ hpc = "joined" => res[r].val >= max_count

\* C17 witness: a run of three workers on a ResourceMutex with a positive
\* target has ended at max_count + max_threads - 1.
OvershootBoundWitness ==
    /\ hpc = "joined" /\ max_threads = 3 /\ max_count >= 1
    /\ res[r].kind = "ResourceMutex"
    /\ res[r].val = max_count + max_threads - 1

\* the run is on a ResourceAtomicFlag or a ResourceMutex, with at least two
\* workers and a positive target
ExcludingRun ==
    /\ res[r].kind \in {"ResourceAtomicFlag", "ResourceMutex"}
    /\ max_threads >= 2
    /\ max_count >= 1

\* C18: on a ResourceAtomicFlag or ResourceMutex, with at least two workers
\* and a positive target, the worker with index max_count mod max_threads has
\* not returned while the counter is at or below the target, and a finished
\* run has its counter above the target.
ForcedOvershoot ==
    ExcludingRun =>
        /\ res[r].val <= max_count =>
              \A k \in Workers :
                  threads[k].thread_num = max_count % max_threads => threads[k].pc # "done"
        /\ hpc = "joined" => res[r].val > max_count

\* C18 witness: such a run on a ResourceAtomicFlag has ended one above the target.
ForcedOvershootWitness ==
    /\ ExcludingRun
    /\ res[r].kind = "ResourceAtomicFlag"
    /\ hpc = "joined"
    /\ res[r].val = max_count + 1

\* the workers on object id between a successful turn check and the end of val++
Writers(id) == {k \in Workers : threads[k].r = id /\ threads[k].pc \in {"load", "store"}}

\* C19: whatever the lock, at most one worker is between a successful turn
\* check and the end of its val++, the counter then still has the value its
\* turn check read, and no other worker's step changes the counter meanwhile.
TurnSerialises ==
    /\ [](\A id \in DOMAIN res :
            /\ Cardinality(Writers(id)) <= 1
            /\ \A k \in Writers(id) :
                  /\ res[id].val = threads[k].seen
                  /\ threads[k].pc = "store" => threads[k].tmp = res[id].val)
    /\ [][\A id \in DOMAIN res : \A k \in Writers(id) :
            res'[id].val # res[id].val =>
                (threads[k].pc = "store" /\ threads'[k].pc = "copy")]_vars

\* C19 witness: on a ResourceAtomicSpin whose lock cell is free, one worker is
\* between its successful turn check and its store while two others are in
\* the region.
TurnSerialisesWitness ==
    \E k, j, l \in Workers :
        /\ j # k /\ l # k /\ j # l
        /\ Kind(k) = "ResourceAtomicSpin" /\ Lock(k) = 0
        /\ threads[k].pc = "load" /\ Val(k) > 0
        /\ threads[j].pc = "check" /\ threads[l].pc = "copy"

\* the exclusion primitive of object id is held
Held(id) ==
    IF res[id].kind = "ResourceAtomicSpin" THEN res[id].lock # 0 ELSE res[id].lock = TRUE

\* C20: the primitive of an object is never held while no worker is inside
\* inc on that object, and it is free when execSync has joined its workers.
ReleasedAtQuiescence ==
    /\ \A id \in DOMAIN res :
          Held(id) => \E k \in Workers : threads[k].r = id /\ threads[k].pc # "done"
    /\ hpc = "joined" => ~Held(r)

TypeOK ==
    /\ counting \in BOOLEAN
    /\ hpc \in {"spawn", "join", "joined"}
    /\ \A k \in Workers : threads[k].pc \in {"acquire", "check", "load", "store", "copy", "release", "done"}
====
